---- MODULE Spec2Model ----
(***************************************************************************)
(* Similarity-linking engine of data_sources/zillow/simScore.py:           *)
(* record containers (ZPFG, APFG), num_sim, the composite scorers,         *)
(* connect_nodes and the three passes of the __main__ run.                 *)
(*                                                                         *)
(* Numbers.  Scores are exact rationals <<n, d>> (d > 0, lowest terms);    *)
(* the IEEE rounding of Python floats is not modelled.  bed and bath are   *)
(* floats in the program; num_sim, truthiness and equality are invariant   *)
(* under a common positive scale, so they are carried as integers.         *)
(* A nullable attribute is <<>> (None) or <<v>>.                           *)
(***************************************************************************)
EXTENDS Integers, Sequences, FiniteSets, Bags, TLC

None == <<>>

Some(v) == <<v>>

Abs(x) == IF x < 0 THEN -x ELSE x

RECURSIVE GCD(_, _)
GCD(a, b) == IF b = 0 THEN a ELSE GCD(b, a % b)

\* the rational n/d in lowest terms with a positive denominator (d # 0)
Rat(n, d) ==
    LET s == IF d < 0 THEN -1 ELSE 1
        g == GCD(Abs(n), Abs(d))
    IN  <<(s * n) \div g, (s * d) \div g>>

RZero == <<0, 1>>

ROne == <<1, 1>>

RAdd(p, q) == Rat(p[1] * q[2] + q[1] * p[2], p[2] * q[2])

RSub(p, q) == Rat(p[1] * q[2] - q[1] * p[2], p[2] * q[2])

RMul(p, q) == Rat(p[1] * q[1], p[2] * q[2])

RDiv(p, q) == Rat(p[1] * q[2], p[2] * q[1])

RLe(p, q) == p[1] * q[2] <= q[1] * p[2]

RMin(p, q) == IF RLe(p, q) THEN p ELSE q

(***************************************************************************)
(* num_sim (simScore.py:53-55).  The division by (base_val + comp_val) / 2 *)
(* raises ZeroDivisionError when the operands sum to 0.                    *)
(***************************************************************************)
num_sim_raises(base_val, comp_val) == base_val + comp_val = 0

\* num_sim without the absolute value of the difference
num_sim_signed(base_val, comp_val, ratio) ==
    LET diff == RMin(Rat(2 * (base_val - comp_val), base_val + comp_val), ratio)
    IN  RDiv(RSub(ratio, diff), ratio)

num_sim(base_val, comp_val, ratio) ==
    LET diff == RMin(Rat(2 * Abs(base_val - comp_val), base_val + comp_val), ratio)
    IN  RDiv(RSub(ratio, diff), ratio)

(***************************************************************************)
(* cosine_sim = Cosine().get_sim_score (simScore.py:11,18), the            *)
(* py_stringmatching routine: TypeError on a None argument, 1.0 on an      *)
(* exact match (two empty collections included), 0 when one side is empty, *)
(* else |A \cap B| / (sqrt|A| * sqrt|B|).  Collections are None or <<S>>   *)
(* with S a finite set; the sizes used keep the square root an integer.    *)
(***************************************************************************)
Sqrt(n) == CHOOSE k \in 0..n : k * k = n

cosine_raises(set1, set2) == set1 = None \/ set2 = None

cosine_sim(set1, set2) ==
    LET A == set1[1]
        B == set2[1]
    IN  IF A = B THEN ROne
        ELSE IF A = {} \/ B = {} THEN RZero
        ELSE Rat(Cardinality(A \cap B), Sqrt(Cardinality(A) * Cardinality(B)))

\* Python truthiness of a nullable number, as all((a, b)) tests it
Truthy(v) == v # None /\ v[1] # 0

(***************************************************************************)
(* Raw attribute mappings, as the store's queries return them              *)
(* (simScore.py:239-244, 258-266).  A numeric value is None, <<v>> (a      *)
(* number or a numeral string) or Uncoercible (a value the coercion of     *)
(* key_to_type rejects).  A street is None or <<characters>>.              *)
(* A neighborhood is None, <<"list", S>> (a native collection with         *)
(* elements S), <<"ser", S>> (the text of a list, "['a', 'b']") or         *)
(* <<"plain", t>> (any other text t, such as "Downtown").                  *)
(***************************************************************************)
Uncoercible == <<0, 0>>

Digits == {"0", "1", "2", "3", "4", "5", "6", "7", "8", "9"}

\* key_to_type[actual_key](v), simScore.py:67-71
Coerce(v) == IF v = None THEN None ELSE Some(v[1])

CoerceRaises(v) == v = Uncoercible

\* ast.literal_eval on a neighborhood string, simScore.py:72-74: a text that
\* is not a Python literal raises ValueError (SyntaxError when it is not an
\* expression either)
NeighborhoodRaises(v) == v # None /\ v[1] = "plain"

Neighborhood(v) == IF v = None THEN None ELSE Some(v[2])

\* set(self.neighborhood), TypeError -> set(), simScore.py:79-82
NeighborhoodSet(n) == IF n = None THEN {} ELSE n[1]

\* street.translate({ord(d): None for d in digits}), simScore.py:107
StrippedStreet(street) == SelectSeq(street[1], LAMBDA c : c \notin Digits)

\* PropertyContainer.__init__ on the keys of the Property query
ZPFG_raises(info) ==
    \/ CoerceRaises(info.id) \/ CoerceRaises(info.price) \/ CoerceRaises(info.size)
    \/ CoerceRaises(info.bed) \/ CoerceRaises(info.bath)
    \/ NeighborhoodRaises(info.neighborhood)
    \/ info.street = None

\* the exception that leaves ZPFG(info): the loop of __init__ raises first,
\* None.translate (simScore.py:107) after it
ZPFG_error(info) ==
    IF \/ CoerceRaises(info.id) \/ CoerceRaises(info.price) \/ CoerceRaises(info.size)
       \/ CoerceRaises(info.bed) \/ CoerceRaises(info.bath)
       \/ NeighborhoodRaises(info.neighborhood)
    THEN "ValueError"
    ELSE "AttributeError"

ZPFG(info) ==
    [data_source      |-> "zillow",
     node_name        |-> "Property",
     id               |-> Coerce(info.id),
     price            |-> Coerce(info.price),
     street           |-> info.street,
     size             |-> Coerce(info.size),
     bed              |-> Coerce(info.bed),
     bath             |-> Coerce(info.bath),
     neighborhood     |-> Neighborhood(info.neighborhood),
     stripped_street  |-> StrippedStreet(info.street),
     neighborhood_set |-> NeighborhoodSet(Neighborhood(info.neighborhood))]

\* PropertyContainer.__init__ on the keys of the Rental query
APFG_raises(info) ==
    \/ CoerceRaises(info.id) \/ CoerceRaises(info.bed) \/ CoerceRaises(info.bath)
    \/ NeighborhoodRaises(info.neighborhood)

APFG_error(info) == "ValueError"

APFG(info) ==
    [data_source      |-> "airbnb",
     node_name        |-> "Rental",
     id               |-> Coerce(info.id),
     bed              |-> Coerce(info.bed),
     bath             |-> Coerce(info.bath),
     type_id          |-> info.type_id,
     amenity_ids      |-> info.amenity_ids,
     amenity_names    |-> info.amenity_names,
     city             |-> info.city,
     neighborhood     |-> Neighborhood(info.neighborhood),
     neighborhood_set |-> NeighborhoodSet(Neighborhood(info.neighborhood))]

(***************************************************************************)
(* The composite scorers.  A scorer's result is [err, score]: err is ""    *)
(* when the call returns score, else the name of the exception raised.     *)
(***************************************************************************)
Returned(score) == [err |-> "", score |-> score]

Raised(name) == [err |-> name, score |-> RZero]

\* a closeness term that counts an absent value as a full match
NumTerm_AbsentAsMatch(w, a, b, ratio) ==
    IF Truthy(a) /\ Truthy(b) THEN RMul(w, num_sim(a[1], b[1], ratio))
    ELSE IF a = None \/ b = None THEN w
    ELSE RZero

\* if all((a, b)): score += w * num_sim(a, b, ratio)
NumTerm(w, a, b, ratio) ==
    IF Truthy(a) /\ Truthy(b) THEN RMul(w, num_sim(a[1], b[1], ratio)) ELSE RZero

NumTermRaises(a, b) == Truthy(a) /\ Truthy(b) /\ num_sim_raises(a[1], b[1])

\* ZPFG.zillowCompare, simScore.py:117-146
zillowCompare(self, other) ==
    IF \/ NumTermRaises(self.price, other.price)
       \/ NumTermRaises(self.bed, other.bed)
       \/ NumTermRaises(self.bath, other.bath)
       \/ NumTermRaises(self.size, other.size)
    THEN Raised("ZeroDivisionError")
    ELSE LET s1 == NumTerm(<<1, 2>>, self.price, other.price, <<3, 10>>)
             s2 == IF self.stripped_street = other.stripped_street
                   THEN RAdd(s1, <<1, 5>>) ELSE s1
             s3 == RAdd(s2, NumTerm(<<1, 10>>, self.bed, other.bed, <<1, 2>>))
             s4 == RAdd(s3, NumTerm(<<1, 10>>, self.bath, other.bath, <<1, 2>>))
             s5 == RAdd(s4, NumTerm(<<1, 10>>, self.size, other.size, <<3, 10>>))
         IN  Returned(s5)

\* the sale-rental scorer with the bed, bath and neighborhood weights of the
\* rental-rental scorer
ZPFG_airbnbCompare_weights(self, other) ==
    IF \/ NumTermRaises(self.bed, other.bed)
       \/ NumTermRaises(self.bath, other.bath)
    THEN Raised("ZeroDivisionError")
    ELSE LET s1 == NumTerm(<<1, 4>>, self.bed, other.bed, <<1, 2>>)
             s2 == RAdd(s1, NumTerm(<<1, 4>>, self.bath, other.bath, <<1, 2>>))
             s3 == RAdd(s2, RMul(<<3, 10>>,
                        cosine_sim(Some(self.neighborhood_set),
                                   Some(other.neighborhood_set))))
         IN  Returned(s3)

\* ZPFG.airbnbCompare, simScore.py:148-161
ZPFG_airbnbCompare(self, other) ==
    IF \/ NumTermRaises(self.bed, other.bed)
       \/ NumTermRaises(self.bath, other.bath)
    THEN Raised("ZeroDivisionError")
    ELSE LET s1 == NumTerm(<<1, 3>>, self.bed, other.bed, <<1, 2>>)
             s2 == RAdd(s1, NumTerm(<<1, 3>>, self.bath, other.bath, <<1, 2>>))
             s3 == RAdd(s2, RMul(<<1, 3>>,
                        cosine_sim(Some(self.neighborhood_set),
                                   Some(other.neighborhood_set))))
         IN  Returned(s3)

\* APFG.airbnbCompare, simScore.py:175-201
APFG_airbnbCompare(self, other) ==
    IF \/ NumTermRaises(self.bed, other.bed)
       \/ NumTermRaises(self.bath, other.bath)
    THEN Raised("ZeroDivisionError")
    ELSE IF \/ cosine_raises(self.amenity_ids, other.amenity_ids)
            \/ cosine_raises(self.amenity_names, other.amenity_names)
    THEN Raised("TypeError")
    ELSE LET s1 == NumTerm(<<1, 4>>, self.bed, other.bed, <<1, 2>>)
             s2 == RAdd(s1, NumTerm(<<1, 4>>, self.bath, other.bath, <<1, 2>>))
             s3 == IF self.neighborhood_set # {} /\ other.neighborhood_set # {}
                   THEN RAdd(s2, RMul(<<3, 10>>,
                             cosine_sim(Some(self.neighborhood_set),
                                        Some(other.neighborhood_set))))
                   ELSE IF self.city = other.city THEN RAdd(s2, <<3, 10>>)
                   ELSE s2
             s4 == IF self.type_id = other.type_id THEN RAdd(s3, <<1, 10>>) ELSE s3
             s5 == RAdd(s4, RMul(<<1, 20>>,
                        cosine_sim(self.amenity_ids, other.amenity_ids)))
             s6 == RAdd(s5, RMul(<<1, 20>>,
                        cosine_sim(self.amenity_names, other.amenity_names)))
         IN  Returned(s6)

\* ZPFG.compare, simScore.py:109-113
ZPFG_compare(self, other) ==
    IF other.data_source = "zillow" THEN zillowCompare(self, other)
    ELSE ZPFG_airbnbCompare(self, other)

\* a rental's compare that scores another rental with ZPFG.airbnbCompare
APFG_compare_thirds(self, other) == ZPFG_airbnbCompare(other, self)

\* APFG.compare, simScore.py:169-173
APFG_compare(self, other) ==
    IF other.data_source = "airbnb" THEN APFG_airbnbCompare(self, other)
    ELSE ZPFG_airbnbCompare(other, self)

\* p1.compare(p2): dispatch on the class of p1, simScore.py:218
compare(p1, p2) ==
    IF p1.data_source = "zillow" THEN ZPFG_compare(p1, p2) ELSE APFG_compare(p1, p2)

(***************************************************************************)
(* The run (simScore.py:279-292) against the graph store.                  *)
(*                                                                         *)
(* property_nodes, rental_nodes : the store's Property and Rental nodes,   *)
(*     raw attribute mappings; idType tells whether the node's id property *)
(*     is stored as a string or as an integer.                             *)
(* edges        : the bag of Is_Similar relationships in the store.        *)
(* pc           : the position of the script.                              *)
(* zillow_props, airbnb_props : the record lists of the run.               *)
(* pairs, idx, count, pass : the locals of the running connect_nodes.      *)
(* reports      : what connect_nodes has printed at line 231.              *)
(* error        : the exception that ended the run, "" if none.            *)
(* scored       : history of the compare calls of the run.                 *)
(* writes       : history of the CREATE queries sent in the run.           *)
(* deleted      : the bulk delete of the run has completed.                *)
(* invocations  : how many more times the script is started.               *)
(* first_edges  : the store's edges when the previous run completed.       *)
(* call, ret    : a single call of one function of the module, outside a   *)
(*     run: the function and its arguments, and what it returned or        *)
(*     raised; None and <<>> during a run.                                 *)
(* limit, pages, delay : the arguments of a call of Airbnb.get_listings.   *)
(* gl_pc, gl_i, last_page, listings : its position, its loop index i and   *)
(*     its locals; listings is None or <<the ids of the rows appended>>.   *)
(* requests     : history of the offsets passed to get_homes.              *)
(* results      : history of what each turn of the loop got from the try   *)
(*     block: an exception, a result without listings, or a page.          *)
(***************************************************************************)
VARIABLES property_nodes, rental_nodes, edges, pc, zillow_props, airbnb_props,
          pairs, idx, count, pass, reports, error, scored, writes, deleted,
          invocations, first_edges, call, ret,
          limit, pages, delay, gl_pc, gl_i, last_page, listings, requests, results

vars == <<property_nodes, rental_nodes, edges, pc, zillow_props, airbnb_props,
          pairs, idx, count, pass, reports, error, scored, writes, deleted,
          invocations, first_edges, call, ret,
          limit, pages, delay, gl_pc, gl_i, last_page, listings, requests, results>>

store == <<property_nodes, rental_nodes>>

unit == <<call, ret>>

fetch == <<limit, pages, delay, gl_pc, gl_i, last_page, listings, requests, results>>

\* no call of Airbnb.get_listings is under way (airbnb_api.py is a separate
\* program from simScore.py)
FetchIdle ==
    /\ limit = 0
    /\ pages = 0
    /\ delay = 0
    /\ gl_pc = "idle"
    /\ gl_i = 0
    /\ last_page = FALSE
    /\ listings = None
    /\ requests = <<>>
    /\ results = <<>>

\* every ordered pair of two positions, as itertools.permutations(s, 2)
combinations_ordered(s) ==
    LET n == Len(s)
        at(k) == <<((k - 1) \div n) + 1, ((k - 1) % n) + 1>>
        all == [k \in 1..(n * n) |-> <<s[at(k)[1]], s[at(k)[2]]>>]
    IN  SelectSeq(all, LAMBDA pr : pr[1] # pr[2])

\* itertools.combinations(s, 2), simScore.py:248,270
RECURSIVE combinations(_)
combinations(s) ==
    IF Len(s) < 2 THEN <<>>
    ELSE [k \in 1..(Len(s) - 1) |-> <<s[1], s[k + 1]>>] \o combinations(Tail(s))

\* the product taken with the rental list first
product_flipped(a, b) ==
    [k \in 1..(Len(a) * Len(b)) |->
        <<b[((k - 1) % Len(b)) + 1], a[((k - 1) \div Len(b)) + 1]>>]

\* itertools.product(a, b), simScore.py:274
product(a, b) ==
    [k \in 1..(Len(a) * Len(b)) |->
        <<a[((k - 1) \div Len(b)) + 1], b[((k - 1) % Len(b)) + 1]>>]

\* the thresholds of the three passes, simScore.py:247,269,273
threshold(p) ==
    IF p = "zz" THEN <<7, 10>> ELSE IF p = "aa" THEN <<49, 50>> ELSE <<19, 20>>

Nodes(label) == IF label = "Property" THEN property_nodes ELSE rental_nodes

NodeSet(label) == {Nodes(label)[k] : k \in DOMAIN Nodes(label)}

Edge(l1, n1, l2, n2, score) ==
    [src |-> <<l1, n1.id[1]>>, dst |-> <<l2, n2.id[1]>>, score |-> score]

(***************************************************************************)
(* The CREATE query of connect_nodes (simScore.py:223-225):                *)
(*   MATCH (n1:L1), (n2:L2) WHERE n1.id = '<id1>' AND n2.id = <id2>        *)
(*   CREATE (n1)-[:Is_Similar {score}]->(n2), (n2)-[...]->(n1)             *)
(* n1 is compared with a string literal and n2 with an integer literal;    *)
(* Cypher equality does not convert between the two.  A record whose id is *)
(* None gives n1.id = 'None', which no node matches, or n2.id = None, in   *)
(* which None is an undefined variable: the store rejects the query.       *)
(***************************************************************************)
MatchN1(p1) ==
    {n \in NodeSet(p1.node_name) :
        p1.id # None /\ n.id # None /\ n.idType = "str" /\ n.id = p1.id}

MatchN2(p2) ==
    {n \in NodeSet(p2.node_name) :
        p2.id # None /\ n.id # None /\ n.idType = "int" /\ n.id = p2.id}

QueryRaises(p1, p2) == p2.id = None

Created(p1, p2, score) ==
    SetToBag(UNION {{Edge(p1.node_name, n1, p2.node_name, n2, score),
                     Edge(p2.node_name, n2, p1.node_name, n1, score)} :
                    <<n1, n2>> \in MatchN1(p1) \X MatchN2(p2)})

Abort(name) ==
    /\ pc' = "aborted"
    /\ error' = name

\* a bulk delete that leaves the edges in the store
BulkDelete_NoClear ==
    /\ pc = "delete"
    /\ deleted' = TRUE
    /\ pc' = "zillowZillowConnect"
    /\ UNCHANGED <<fetch, unit, store, edges, zillow_props, airbnb_props, pairs, idx, count, pass,
                   reports, error, scored, writes, invocations, first_edges>>

\* with driver.session(): session.run('MATCH ()-[r:Is_Similar]-() DELETE r;')
BulkDelete ==
    /\ pc = "delete"
    /\ edges' = EmptyBag
    /\ deleted' = TRUE
    /\ pc' = "zillowZillowConnect"
    /\ UNCHANGED <<fetch, unit, store, zillow_props, airbnb_props, pairs, idx, count, pass,
                   reports, error, scored, writes, invocations, first_edges>>

\* a failed bulk delete whose exception is swallowed: the run goes on
BulkDeleteFails_Swallowed ==
    /\ pc = "delete"
    /\ pc' = "zillowZillowConnect"
    /\ UNCHANGED <<fetch, unit, store, edges, zillow_props, airbnb_props, pairs, idx, count,
                   pass, reports, error, scored, writes, deleted, invocations,
                   first_edges>>

\* the store raises on the bulk delete: the exception leaves __main__
BulkDeleteFails ==
    /\ pc = "delete"
    /\ Abort("StoreError")
    /\ UNCHANGED <<fetch, unit, store, edges, zillow_props, airbnb_props, pairs, idx, count,
                   pass, reports, scored, writes, deleted, invocations,
                   first_edges>>

\* connect_nodes up to its loop, simScore.py:210-214; pairs[0] raises
\* IndexError on an empty list
ConnectBegin(ps, p) ==
    IF ps = <<>>
    THEN /\ Abort("IndexError")
         /\ UNCHANGED <<pairs, idx, count, pass>>
    ELSE /\ pairs' = ps
         /\ idx' = 1
         /\ count' = 0
         /\ pass' = p
         /\ pc' = "connect_nodes"
         /\ UNCHANGED error

\* zillowZillowConnect up to the loop of its connect_nodes, simScore.py:234-248
ZillowZillowConnect ==
    /\ pc = "zillowZillowConnect"
    /\ IF \E k \in DOMAIN property_nodes : ZPFG_raises(property_nodes[k])
       THEN /\ Abort(ZPFG_error(property_nodes[
                        CHOOSE k \in DOMAIN property_nodes :
                            /\ ZPFG_raises(property_nodes[k])
                            /\ \A j \in 1..(k - 1) : ~ZPFG_raises(property_nodes[j])]))
            /\ UNCHANGED <<zillow_props, pairs, idx, count, pass>>
       ELSE /\ zillow_props' = [k \in DOMAIN property_nodes |-> ZPFG(property_nodes[k])]
            /\ ConnectBegin(combinations(zillow_props'), "zz")
    /\ UNCHANGED <<fetch, unit, store, edges, airbnb_props, reports, scored, writes, deleted,
                   invocations, first_edges>>

\* zillowAirbnbConnect up to the loop of its first connect_nodes,
\* simScore.py:253-270
ZillowAirbnbConnect ==
    /\ pc = "zillowAirbnbConnect"
    /\ IF \E k \in DOMAIN rental_nodes : APFG_raises(rental_nodes[k])
       THEN /\ Abort(APFG_error(rental_nodes[
                        CHOOSE k \in DOMAIN rental_nodes :
                            /\ APFG_raises(rental_nodes[k])
                            /\ \A j \in 1..(k - 1) : ~APFG_raises(rental_nodes[j])]))
            /\ UNCHANGED <<airbnb_props, pairs, idx, count, pass>>
       ELSE /\ airbnb_props' = [k \in DOMAIN rental_nodes |-> APFG(rental_nodes[k])]
            /\ ConnectBegin(combinations(airbnb_props'), "aa")
    /\ UNCHANGED <<fetch, unit, store, edges, zillow_props, reports, scored, writes, deleted,
                   invocations, first_edges>>

\* the second connect_nodes of zillowAirbnbConnect, simScore.py:272-274
CrossConnect ==
    /\ pc = "crossConnect"
    /\ ConnectBegin(product(zillow_props, airbnb_props), "za")
    /\ UNCHANGED <<fetch, unit, store, edges, zillow_props, airbnb_props, reports, scored,
                   writes, deleted, invocations, first_edges>>

\* a query of the store raises while the records are fetched
FetchFails ==
    /\ pc \in {"zillowZillowConnect", "zillowAirbnbConnect"}
    /\ Abort("StoreError")
    /\ UNCHANGED <<fetch, unit, store, edges, zillow_props, airbnb_props, pairs, idx, count,
                   pass, reports, scored, writes, deleted, invocations,
                   first_edges>>

\* one turn of the loop of connect_nodes, simScore.py:217-227, the CREATE
\* query succeeding when it is sent
ConnectStep ==
    /\ pc = "connect_nodes"
    /\ idx <= Len(pairs)
    /\ LET p1 == pairs[idx][1]
           p2 == pairs[idx][2]
           r  == compare(p1, p2)
       IN  /\ scored' = Append(scored, [pass |-> pass, p1 |-> p1, p2 |-> p2, result |-> r])
           /\ IF r.err # ""
              THEN /\ Abort(r.err)
                   /\ UNCHANGED <<edges, count, idx, writes>>
              ELSE IF RLe(threshold(pass), r.score) /\ QueryRaises(p1, p2)
              THEN /\ writes' = Append(writes, [pass |-> pass, p1 |-> p1, p2 |-> p2,
                                                score |-> r.score, ok |-> FALSE])
                   /\ Abort("StoreError")
                   /\ UNCHANGED <<edges, count, idx>>
              ELSE IF RLe(threshold(pass), r.score)
              THEN /\ edges' = edges (+) Created(p1, p2, r.score)
                   /\ writes' = Append(writes, [pass |-> pass, p1 |-> p1, p2 |-> p2,
                                                score |-> r.score, ok |-> TRUE])
                   /\ count' = count + 2
                   /\ idx' = idx + 1
                   /\ UNCHANGED <<pc, error>>
              ELSE /\ idx' = idx + 1
                   /\ UNCHANGED <<edges, count, writes, pc, error>>
    /\ UNCHANGED <<fetch, unit, store, zillow_props, airbnb_props, pairs, pass, reports,
                   deleted, invocations, first_edges>>

\* a failed CREATE query after which the edges written so far are deleted
ConnectStepWriteFails_Rollback ==
    /\ pc = "connect_nodes"
    /\ idx <= Len(pairs)
    /\ LET p1 == pairs[idx][1]
           p2 == pairs[idx][2]
           r  == compare(p1, p2)
       IN  /\ r.err = ""
           /\ RLe(threshold(pass), r.score)
           /\ scored' = Append(scored, [pass |-> pass, p1 |-> p1, p2 |-> p2, result |-> r])
           /\ writes' = Append(writes, [pass |-> pass, p1 |-> p1, p2 |-> p2,
                                        score |-> r.score, ok |-> FALSE])
    /\ edges' = EmptyBag
    /\ Abort("StoreError")
    /\ UNCHANGED <<fetch, unit, store, zillow_props, airbnb_props, pairs, idx, count,
                   pass, reports, deleted, invocations, first_edges>>

\* one turn of the loop whose CREATE query raises: the exception leaves
\* connect_nodes and __main__
ConnectStepWriteFails ==
    /\ pc = "connect_nodes"
    /\ idx <= Len(pairs)
    /\ LET p1 == pairs[idx][1]
           p2 == pairs[idx][2]
           r  == compare(p1, p2)
       IN  /\ r.err = ""
           /\ RLe(threshold(pass), r.score)
           /\ scored' = Append(scored, [pass |-> pass, p1 |-> p1, p2 |-> p2, result |-> r])
           /\ writes' = Append(writes, [pass |-> pass, p1 |-> p1, p2 |-> p2,
                                        score |-> r.score, ok |-> FALSE])
    /\ Abort("StoreError")
    /\ UNCHANGED <<fetch, unit, store, edges, zillow_props, airbnb_props, pairs, idx, count,
                   pass, reports, deleted, invocations, first_edges>>

\* the end of connect_nodes, simScore.py:229-231, and the return to its caller
ConnectEnd ==
    /\ pc = "connect_nodes"
    /\ idx > Len(pairs)
    /\ reports' = Append(reports, [pass |-> pass, count |-> count, total |-> Len(pairs)])
    /\ pc' = IF pass = "zz" THEN "zillowAirbnbConnect"
             ELSE IF pass = "aa" THEN "crossConnect"
             ELSE "done"
    /\ UNCHANGED <<fetch, unit, store, edges, zillow_props, airbnb_props, pairs, idx, count,
                   pass, error, scored, writes, deleted, invocations, first_edges>>

\* the script is started again on the same store after a completed run
NextRun ==
    /\ pc = "done"
    /\ invocations > 0
    /\ invocations' = invocations - 1
    /\ first_edges' = Some(edges)
    /\ pc' = "delete"
    /\ zillow_props' = <<>>
    /\ airbnb_props' = <<>>
    /\ pairs' = <<>>
    /\ idx' = 1
    /\ count' = 0
    /\ pass' = ""
    /\ reports' = <<>>
    /\ scored' = <<>>
    /\ writes' = <<>>
    /\ deleted' = FALSE
    /\ UNCHANGED <<fetch, unit, store, edges, error>>

Next ==
    \/ BulkDelete
    \/ BulkDeleteFails
    \/ ZillowZillowConnect
    \/ ZillowAirbnbConnect
    \/ CrossConnect
    \/ FetchFails
    \/ ConnectStep
    \/ ConnectStepWriteFails
    \/ ConnectEnd
    \/ NextRun

(***************************************************************************)
(* Inputs: the content of the store when the script starts.                *)
(***************************************************************************)
MaxSale == 3

MaxRental == 2

BedVals == {None, <<0>>, <<1>>, <<2>>, <<3>>, <<-2>>}

BathVals == {None, <<2>>, <<3>>}

Street(a, b) == Some(<<a, b>>)

SaleBase ==
    [price |-> <<200000>>, street |-> Street("1", "M"), size |-> <<1500>>,
     bed |-> <<3>>, bath |-> <<2>>, neighborhood |-> <<"ser", {"a"}>>]

\* a second sale listing, unlike SaleBase in price and street
SaleFar ==
    [price |-> <<300000>>, street |-> Street("3", "O"), size |-> <<2000>>,
     bed |-> <<2>>, bath |-> <<2>>, neighborhood |-> <<"ser", {"b"}>>]

SaleBedBath == {[SaleBase EXCEPT !.bed = b, !.bath = h] : b \in BedVals, h \in BathVals}

SaleNeighborhood ==
    {[SaleBase EXCEPT !.neighborhood = n] :
        n \in {None, <<"ser", {}>>, <<"ser", {"a"}>>, <<"ser", {"b"}>>,
               <<"ser", {"a", "b", "c", "d"}>>}}

SaleAttrs ==
    {[SaleBase EXCEPT !.price = p, !.size = z] :
        p \in {None, <<200000>>, <<300000>>}, z \in {None, <<1500>>, <<2000>>}}
    \cup {[SaleBase EXCEPT !.street = st] :
            st \in {Street("1", "M"), Street("2", "M"), Street("3", "O")}}
    \cup SaleBedBath
    \cup {[SaleBase EXCEPT !.price = p, !.bed = b, !.bath = None, !.size = None] :
            p \in {None, <<300000>>}, b \in {<<1>>, <<3>>}}
    \cup {SaleFar}

RentalBase ==
    [bed |-> <<3>>, bath |-> <<2>>, type_id |-> <<1>>, city |-> <<"SD">>,
     amenity_ids |-> <<{1}>>, amenity_names |-> <<{"wifi"}>>,
     neighborhood |-> <<"list", {"a"}>>]

\* a second rental listing, unlike RentalBase in bed and type
RentalFar ==
    [bed |-> <<1>>, bath |-> <<2>>, type_id |-> <<2>>, city |-> <<"LA">>,
     amenity_ids |-> <<{1, 2, 3, 4}>>, amenity_names |-> <<{"wifi"}>>,
     neighborhood |-> <<"list", {"b"}>>]

RentalBedBath == {[RentalBase EXCEPT !.bed = b, !.bath = h] : b \in BedVals, h \in BathVals}

RentalNeighborhood ==
    {[RentalBase EXCEPT !.neighborhood = n] :
        n \in {<<"list", {}>>, <<"list", {"a"}>>, <<"list", {"b"}>>,
               <<"list", {"a", "b", "c", "d"}>>}}

RentalAttrs ==
    RentalBedBath
    \cup {[RentalBase EXCEPT !.neighborhood = n, !.city = c] :
            n \in {<<"list", {}>>, <<"list", {"a"}>>, <<"list", {"b"}>>,
                   <<"list", {"a", "b", "c", "d"}>>},
            c \in {None, <<"SD">>, <<"LA">>}}
    \cup {[RentalBase EXCEPT !.type_id = t, !.amenity_ids = i, !.amenity_names = m] :
            t \in {None, <<1>>, <<2>>},
            i \in {None, <<{}>>, <<{1}>>, <<{1, 2, 3, 4}>>},
            m \in {<<{}>>, <<{"wifi"}>>}}
    \cup {RentalFar}

\* how the id property of a label's nodes is stored
Typings == {"str", "int", "alt"}

IdType(typing, k) ==
    IF typing = "alt" THEN (IF k % 2 = 1 THEN "str" ELSE "int") ELSE typing

PropertyNode(a, k, typing) ==
    [id |-> <<k>>, idType |-> IdType(typing, k), price |-> a.price,
     street |-> a.street, size |-> a.size, bed |-> a.bed, bath |-> a.bath,
     neighborhood |-> a.neighborhood]

RentalNode(a, k, typing) ==
    [id |-> <<k>>, idType |-> IdType(typing, k), bed |-> a.bed, bath |-> a.bath,
     type_id |-> a.type_id, city |-> a.city, amenity_ids |-> a.amenity_ids,
     amenity_names |-> a.amenity_names, neighborhood |-> a.neighborhood]

\* n listings: all alike, or alternately the base and the far listing
Listings(n, pattern, base, far) ==
    [k \in 1..n |-> IF pattern = "alt" /\ k % 2 = 0 THEN far ELSE base]

\* Is_Similar edges a run can find in the store: none, or edges between the
\* first two Property nodes, one of them twice, with a score of earlier data
StaleEdges(pn) ==
    {EmptyBag} \cup
    (IF Len(pn) < 2 THEN {}
     ELSE {SetToBag({Edge("Property", pn[1], "Property", pn[2], <<9, 10>>)})
           (+) SetToBag({Edge("Property", pn[1], "Property", pn[2], <<9, 10>>),
                         Edge("Property", pn[2], "Property", pn[1], <<9, 10>>)})})

InitRun(pn, rn, stale, inv) ==
    /\ property_nodes = pn
    /\ rental_nodes = rn
    /\ edges = stale
    /\ invocations = inv
    /\ pc = "delete"
    /\ zillow_props = <<>>
    /\ airbnb_props = <<>>
    /\ pairs = <<>>
    /\ idx = 1
    /\ count = 0
    /\ pass = ""
    /\ reports = <<>>
    /\ error = ""
    /\ scored = <<>>
    /\ writes = <<>>
    /\ deleted = FALSE
    /\ first_edges = None
    /\ call = None
    /\ ret = <<>>
    /\ FetchIdle

\* stores of 0..MaxSale sale and 0..MaxRental rental listings, run twice
InitStores ==
    \E n \in 0..MaxSale, m \in 0..MaxRental, sp \in {"same", "alt"},
       rp \in {"same", "alt"}, st \in Typings, rt \in Typings :
        LET pn == [k \in 1..n |-> PropertyNode(Listings(n, sp, SaleBase, SaleFar)[k], k, st)]
            rn == [k \in 1..m |-> RentalNode(Listings(m, rp, RentalBase, RentalFar)[k], k, rt)]
        IN  \E stale \in StaleEdges(pn) : InitRun(pn, rn, stale, 1)

\* two sale listings of any attributes, no rental
InitSalePair ==
    \E a1 \in SaleAttrs, a2 \in SaleAttrs, st \in {"str", "alt"} :
        InitRun(<<PropertyNode(a1, 1, st), PropertyNode(a2, 2, st)>>, <<>>, EmptyBag, 0)

\* two rental listings of any attributes, beside two like sale listings
InitRentalPair ==
    \E a1 \in RentalAttrs, a2 \in RentalAttrs :
        InitRun(<<PropertyNode(SaleBase, 1, "str"), PropertyNode(SaleBase, 2, "str")>>,
                <<RentalNode(a1, 1, "int"), RentalNode(a2, 2, "int")>>, EmptyBag, 0)

\* a sale and a rental listing of any bed, bath and neighborhood
InitCrossPair ==
    \E a1 \in SaleBedBath \cup SaleNeighborhood,
       a2 \in RentalBedBath \cup RentalNeighborhood :
        InitRun(<<PropertyNode(SaleBase, 1, "str"), PropertyNode(a1, 2, "str")>>,
                <<RentalNode(RentalBase, 1, "int"), RentalNode(a2, 2, "int")>>,
                EmptyBag, 0)

\* payloads the queries can return for a node whose properties were loaded
\* with a null, a non-numeral text or a free-text neighborhood
SaleMalformed ==
    {[SaleBase EXCEPT !.price = Uncoercible], [SaleBase EXCEPT !.size = Uncoercible],
     [SaleBase EXCEPT !.bed = Uncoercible], [SaleBase EXCEPT !.bath = Uncoercible],
     [SaleBase EXCEPT !.street = None],
     [SaleBase EXCEPT !.neighborhood = <<"plain", "Downtown">>]}

RentalMalformed ==
    {[RentalBase EXCEPT !.bed = Uncoercible], [RentalBase EXCEPT !.bath = Uncoercible]}

BadIds == {None, Uncoercible}

\* a well-formed node beside a node with one malformed property, in either
\* order, for one of the two labels
InitMalformed ==
    \E k \in 1..2 :
        LET goodSale == PropertyNode(SaleBase, 3 - k, "alt")
            goodRental == RentalNode(RentalBase, 3 - k, "alt")
            badSale == {PropertyNode(a, k, "alt") : a \in SaleMalformed}
                       \cup {[PropertyNode(SaleBase, k, "alt") EXCEPT !.id = i] : i \in BadIds}
            badRental == {RentalNode(a, k, "alt") : a \in RentalMalformed}
                         \cup {[RentalNode(RentalBase, k, "alt") EXCEPT !.id = i] : i \in BadIds}
            two(good, bad) == IF k = 1 THEN <<bad, good>> ELSE <<good, bad>>
        IN  \/ \E bad \in badSale :
                  InitRun(two(goodSale, bad),
                          <<RentalNode(RentalBase, 1, "alt"), RentalNode(RentalBase, 2, "alt")>>,
                          EmptyBag, 0)
            \/ \E bad \in badRental :
                  InitRun(<<PropertyNode(SaleBase, 1, "alt"), PropertyNode(SaleBase, 2, "alt")>>,
                          two(goodRental, bad), EmptyBag, 0)

Init == InitStores \/ InitSalePair \/ InitRentalPair \/ InitCrossPair \/ InitMalformed

Spec == Init /\ [][Next]_vars

\* the run with its steps taken as long as one is enabled: the interpreter
\* goes on to the next statement, and a store call returns or raises
FairSpec == Spec /\ WF_vars(Next)

(***************************************************************************)
(* Single calls of the module's functions: num_sim, the two constructors   *)
(* and compare, each on arguments drawn from the sets below.               *)
(***************************************************************************)
MaxNum == 4

NumVals == (-MaxNum)..MaxNum

Ratios == {<<3, 10>>, <<1, 2>>}

\* what a constructor call gave: the record, or the exception's name
Built(self) == [err |-> "", self |-> self]

NotBuilt(name) == [err |-> name, self |-> None]

SaleInfos ==
    {PropertyNode(a, 1, "str") : a \in SaleMalformed \cup SaleNeighborhood}
    \cup {[PropertyNode(SaleBase, 1, "str") EXCEPT !.id = i] : i \in BadIds}
    \cup {PropertyNode([SaleBase EXCEPT !.price = p, !.size = z, !.bed = b, !.bath = h],
                       1, "str") :
            p \in {None, <<0>>, <<200000>>, Uncoercible}, z \in {None, <<0>>, Uncoercible},
            b \in {None, <<0>>, <<3>>}, h \in {None, <<0>>, <<2>>}}

RentalInfos ==
    {RentalNode(a, 1, "int") : a \in RentalMalformed \cup RentalNeighborhood}
    \cup {[RentalNode(RentalBase, 1, "int") EXCEPT !.id = i] : i \in BadIds}
    \cup {RentalNode([RentalBase EXCEPT !.bed = b, !.bath = h, !.neighborhood = n], 1, "int") :
            b \in {None, <<0>>, <<3>>, Uncoercible}, h \in {None, <<0>>, Uncoercible},
            n \in {None, <<"list", {"a", "b"}>>, <<"plain", "Downtown">>}}

SaleRecords == {ZPFG(PropertyNode(a, 1, "str")) : a \in SaleAttrs}

RentalRecords == {APFG(RentalNode(a, 1, "int")) : a \in RentalAttrs}

CrossSaleRecords == {ZPFG(PropertyNode(a, 1, "str")) : a \in SaleBedBath \cup SaleNeighborhood}

CrossRentalRecords ==
    {APFG(RentalNode(a, 1, "int")) : a \in RentalBedBath \cup RentalNeighborhood}

Calls ==
    {[fn |-> "num_sim", base_val |-> x, comp_val |-> y, ratio |-> r] :
        x \in NumVals, y \in NumVals, r \in Ratios}
    \cup {[fn |-> "ZPFG", info |-> i] : i \in SaleInfos}
    \cup {[fn |-> "APFG", info |-> i] : i \in RentalInfos}
    \cup {[fn |-> "compare", self |-> a, other |-> b] : a \in SaleRecords, b \in SaleRecords}
    \cup {[fn |-> "compare", self |-> a, other |-> b] :
            a \in RentalRecords, b \in RentalRecords}
    \cup {[fn |-> "compare", self |-> a, other |-> b] :
            a \in CrossSaleRecords, b \in CrossRentalRecords}
    \cup {[fn |-> "compare", self |-> b, other |-> a] :
            a \in CrossSaleRecords, b \in CrossRentalRecords}

UnitInit ==
    /\ call \in Calls
    /\ ret = <<>>
    /\ property_nodes = <<>>
    /\ rental_nodes = <<>>
    /\ edges = EmptyBag
    /\ invocations = 0
    /\ pc = "call"
    /\ zillow_props = <<>>
    /\ airbnb_props = <<>>
    /\ pairs = <<>>
    /\ idx = 1
    /\ count = 0
    /\ pass = ""
    /\ reports = <<>>
    /\ error = ""
    /\ scored = <<>>
    /\ writes = <<>>
    /\ deleted = FALSE
    /\ first_edges = None
    /\ FetchIdle

run == <<store, edges, pc, zillow_props, airbnb_props, pairs, idx, count, pass,
         reports, error, scored, writes, deleted, invocations, first_edges>>

\* num_sim(base_val, comp_val, ratio), simScore.py:53-55
Call_num_sim ==
    /\ call.fn = "num_sim"
    /\ ret = <<>>
    /\ ret' = <<IF num_sim_raises(call.base_val, call.comp_val)
                THEN Raised("ZeroDivisionError")
                ELSE Returned(num_sim(call.base_val, call.comp_val, call.ratio))>>
    /\ UNCHANGED <<call, run, fetch>>

\* ZPFG(info), simScore.py:103-107
Call_ZPFG ==
    /\ call.fn = "ZPFG"
    /\ ret = <<>>
    /\ ret' = <<IF ZPFG_raises(call.info) THEN NotBuilt(ZPFG_error(call.info))
                ELSE Built(ZPFG(call.info))>>
    /\ UNCHANGED <<call, run, fetch>>

\* APFG(info), simScore.py:59-82
Call_APFG ==
    /\ call.fn = "APFG"
    /\ ret = <<>>
    /\ ret' = <<IF APFG_raises(call.info) THEN NotBuilt(APFG_error(call.info))
                ELSE Built(APFG(call.info))>>
    /\ UNCHANGED <<call, run, fetch>>

\* self.compare(other)
Call_compare ==
    /\ call.fn = "compare"
    /\ ret = <<>>
    /\ ret' = <<compare(call.self, call.other)>>
    /\ UNCHANGED <<call, run, fetch>>

\* other.compare(self), after self.compare(other)
Call_compare_swapped ==
    /\ call.fn = "compare"
    /\ Len(ret) = 1
    /\ ret' = Append(ret, compare(call.other, call.self))
    /\ UNCHANGED <<call, run, fetch>>

UnitNext ==
    \/ Call_num_sim
    \/ Call_ZPFG
    \/ Call_APFG
    \/ Call_compare
    \/ Call_compare_swapped

UnitSpec == UnitInit /\ [][UnitNext]_vars

(***************************************************************************)
(* Airbnb.get_listings (airbnb_api.py:14-72): the loop of get_homes        *)
(* requests against the Airbnb API.  The API's answer to each request is   *)
(* an input: an exception, a result without listings, or a page of rows    *)
(* (their listing ids) with its has_next_page flag.                        *)
(***************************************************************************)
MaxPages == 4

MaxLimit == 2

Delays == {-1, 1}

PageRows == {<<1>>, <<2, 1>>}

\* what a turn of the loop got from its try block
Result(kind, has_next_page, rows) ==
    [kind |-> kind, has_next_page |-> has_next_page, rows |-> rows]

\* listings.drop_duplicates(subset='id'): the first row of each id is kept
RECURSIVE drop_duplicates(_)
drop_duplicates(rows) ==
    IF rows = <<>> THEN <<>>
    ELSE LET front == drop_duplicates(SubSeq(rows, 1, Len(rows) - 1))
             last == rows[Len(rows)]
         IN  IF \E k \in DOMAIN front : front[k] = last THEN front
             ELSE Append(front, last)

RunIdle ==
    /\ property_nodes = <<>>
    /\ rental_nodes = <<>>
    /\ edges = EmptyBag
    /\ invocations = 0
    /\ pc = "idle"
    /\ zillow_props = <<>>
    /\ airbnb_props = <<>>
    /\ pairs = <<>>
    /\ idx = 1
    /\ count = 0
    /\ pass = ""
    /\ reports = <<>>
    /\ error = ""
    /\ scored = <<>>
    /\ writes = <<>>
    /\ deleted = FALSE
    /\ first_edges = None
    /\ call = None
    /\ ret = <<>>

\* get_listings is called with some limit, pages and delay
ListingsInit ==
    /\ limit \in 0..MaxLimit
    /\ pages \in 0..MaxPages
    /\ delay \in Delays
    /\ gl_pc = "start"
    /\ gl_i = 0
    /\ last_page = FALSE
    /\ listings = None
    /\ requests = <<>>
    /\ results = <<>>
    /\ RunIdle

\* the argument checks and the initialisation, airbnb_api.py:29-38
GetListings ==
    /\ gl_pc = "start"
    /\ gl_pc' = IF limit < 1 \/ pages < 1 THEN "raised" ELSE "loop"
    /\ listings' = None
    /\ last_page' = FALSE
    /\ gl_i' = 0
    /\ UNCHANGED <<limit, pages, delay, requests, results, run, unit>>

\* a turn whose try block raises: get_homes raises, or time.sleep does on a
\* negative delay; airbnb_api.py:39-45
GetHomesRaises ==
    /\ gl_pc = "loop"
    /\ gl_i < pages
    /\ requests' = Append(requests, gl_i * limit)
    /\ results' = Append(results, Result("raises", FALSE, <<>>))
    /\ gl_pc' = "break"
    /\ UNCHANGED <<limit, pages, delay, gl_i, last_page, listings, run, unit>>

\* a turn whose result has no listings, airbnb_api.py:39-50
NoListings ==
    /\ gl_pc = "loop"
    /\ gl_i < pages
    /\ delay >= 0
    /\ requests' = Append(requests, gl_i * limit)
    /\ results' = Append(results, Result("no_listings", FALSE, <<>>))
    /\ gl_pc' = "break"
    /\ UNCHANGED <<limit, pages, delay, gl_i, last_page, listings, run, unit>>

\* a turn whose result is a page of listings, airbnb_api.py:39-66
AppendPage ==
    /\ gl_pc = "loop"
    /\ gl_i < pages
    /\ delay >= 0
    /\ \E rows \in PageRows, has_next_page \in BOOLEAN :
        /\ requests' = Append(requests, gl_i * limit)
        /\ results' = Append(results, Result("page", has_next_page, rows))
        /\ listings' = IF listings # None THEN Some(listings[1] \o rows) ELSE Some(rows)
        /\ IF ~has_next_page
           THEN IF last_page
                THEN /\ gl_pc' = "break"
                     /\ UNCHANGED <<gl_i, last_page>>
                ELSE /\ last_page' = TRUE
                     /\ gl_i' = gl_i + 1
                     /\ UNCHANGED gl_pc
           ELSE /\ gl_i' = gl_i + 1
                /\ UNCHANGED <<gl_pc, last_page>>
    /\ UNCHANGED <<limit, pages, delay, run, unit>>

\* after the loop, airbnb_api.py:68-72
ReturnListings ==
    /\ gl_pc = "break" \/ (gl_pc = "loop" /\ gl_i >= pages)
    /\ listings' = IF listings # None THEN Some(drop_duplicates(listings[1])) ELSE None
    /\ gl_pc' = "returned"
    /\ UNCHANGED <<limit, pages, delay, gl_i, last_page, requests, results, run, unit>>

ListingsNext ==
    \/ GetListings
    \/ GetHomesRaises
    \/ NoListings
    \/ AppendPage
    \/ ReturnListings

ListingsSpec == ListingsInit /\ [][ListingsNext]_vars

(***************************************************************************)
(* Properties                                                              *)
(***************************************************************************)
Key(p) == <<p.data_source, p.id>>

Range(f) == {f[k] : k \in DOMAIN f}

ReportOf(p) == {r \in Range(reports) : r.pass = p}

\* the pairs compared so far in pass p of the run, in order
ComparedPairs(p) ==
    LET es == SelectSeq(scored, LAMBDA e : e.pass = p)
    IN  [k \in DOMAIN es |-> <<es[k].p1, es[k].p2>>]

\* C1: no Is_Similar edge is written, and no CREATE query is sent, before
\* the bulk delete of the run has completed: until then the run is either at
\* the delete or aborted, the edges of the store do not change and no write
\* has been attempted; a failed delete therefore ends the run with the
\* store's edges as they were.
C1_DeleteBeforeWrites ==
    /\ [](~deleted => (writes = <<>> /\ scored = <<>> /\ pc \in {"delete", "aborted"}))
    /\ [][~deleted' => edges' = edges]_vars

\* a run that deleted the stale edges and then wrote new ones in the cross pass
C1_Witness ==
    /\ deleted
    /\ \E k \in DOMAIN writes : writes[k].pass = "za" /\ writes[k].ok
    /\ edges # EmptyBag

\* C2: when a second consecutive run over the same store completes, the
\* store holds exactly the Is_Similar edges the first run left (endpoints,
\* directions and scores), and no directed edge twice.
C2_Idempotent ==
    (pc = "done" /\ first_edges # None) =>
        /\ edges = first_edges[1]
        /\ \A e \in BagToSet(edges) : CopiesIn(e, edges) = 1
        /\ \A e, f \in BagToSet(edges) : (e.src = f.src /\ e.dst = f.dst) => e = f

\* a second run completed on a store that has edges
C2_Witness == pc = "done" /\ first_edges # None /\ edges # EmptyBag

C10_CrossPairs ==
    /\ (pc = "connect_nodes" /\ pass = "za") =>
        /\ Len(pairs) = Len(zillow_props) * Len(airbnb_props)
        /\ Len(zillow_props) = Len(property_nodes)
        /\ Len(airbnb_props) = Len(rental_nodes)
        /\ \A k \in DOMAIN pairs :
               /\ pairs[k][1].data_source = "zillow"
               /\ pairs[k][2].data_source = "airbnb"
        /\ \A i \in DOMAIN zillow_props : \A j \in DOMAIN airbnb_props :
               Cardinality({k \in DOMAIN pairs :
                               pairs[k] = <<zillow_props[i], airbnb_props[j]>>}) = 1
        /\ ComparedPairs(pass) = SubSeq(pairs, 1, idx - 1)
    /\ \A r \in ReportOf("za") :
           /\ r.total = Len(property_nodes) * Len(rental_nodes)
           /\ Len(ComparedPairs("za")) = r.total

\* the cross pass of three sale and two rental listings has compared six pairs
C10_Witness == \E r \in ReportOf("za") : r.total = 6 /\ Len(ComparedPairs("za")) = 6

\* the store node a record stands for
NodeKey(p) == <<p.node_name, IF p.id = None THEN 0 ELSE p.id[1]>>

\* the number of Is_Similar edges of the store from node a to node b
EdgeCount(a, b) ==
    LET es == {e \in BagToSet(edges) : e.src = a /\ e.dst = b}
    IN  BagCardinality([e \in es |-> edges[e]])

HasEdge(a, b, score) == CopiesIn([src |-> a, dst |-> b, score |-> score], edges) >= 1

AtThreshold(e) == e.result.err = "" /\ RLe(threshold(e.pass), e.result.score)

\* the CREATE query for the pair of scored entry e was sent and succeeded
Written(e) ==
    \E k \in DOMAIN writes :
        /\ writes[k].ok
        /\ writes[k].pass = e.pass
        /\ writes[k].p1 = e.p1
        /\ writes[k].p2 = e.p2

\* numSim of two attribute values as the specification has it: 0 when one
\* is absent (section 4.3) or when numSim is undefined (x + y = 0)
Closeness(a, b, ratio) ==
    IF a = None \/ b = None THEN RZero
    ELSE IF a[1] + b[1] = 0 THEN RZero
    ELSE num_sim(a[1], b[1], ratio)

\* numSim of two attribute values, 0 when one is absent or is 0
ClosenessNonZero(a, b, ratio) ==
    IF a = None \/ b = None THEN RZero
    ELSE IF a[1] = 0 \/ b[1] = 0 THEN RZero
    ELSE num_sim(a[1], b[1], ratio)

Sum3(a, b, c) == RAdd(RAdd(a, b), c)

Bonus(cond, w) == IF cond THEN w ELSE RZero

\* the sale-sale score as section 4.3 of the specification states it
SaleFormula(r1, r2, Cl(_, _, _)) ==
    RAdd(Sum3(RMul(<<1, 2>>, Cl(r1.price, r2.price, <<3, 10>>)),
              Bonus(r1.stripped_street = r2.stripped_street, <<1, 5>>),
              RMul(<<1, 10>>, Cl(r1.bed, r2.bed, <<1, 2>>))),
         RAdd(RMul(<<1, 10>>, Cl(r1.bath, r2.bath, <<1, 2>>)),
              RMul(<<1, 10>>, Cl(r1.size, r2.size, <<3, 10>>))))

\* bed, bath and neighborhood cosine, a third each
ThirdsFormula(r1, r2, Cl(_, _, _)) ==
    Sum3(RMul(<<1, 3>>, Cl(r1.bed, r2.bed, <<1, 2>>)),
         RMul(<<1, 3>>, Cl(r1.bath, r2.bath, <<1, 2>>)),
         RMul(<<1, 3>>, cosine_sim(Some(r1.neighborhood_set), Some(r2.neighborhood_set))))

\* an attribute of a record, absent when the record's kind does not have it
Attr(r, name) == IF name \in DOMAIN r THEN r[name] ELSE None

\* cosine of two collections, 0 when one of them is absent
Cos(a, b) == IF a = None \/ b = None THEN RZero ELSE cosine_sim(a, b)

\* the six-term score: strict = TRUE lets a binary term count only when the
\* attribute is present on both records, strict = FALSE lets two absent
\* values match
SixFormula(r1, r2, strict, Cl(_, _, _)) ==
    LET both(name) == Attr(r1, name) # None /\ Attr(r2, name) # None
        same(name) == Attr(r1, name) = Attr(r2, name) /\ (strict => both(name))
        place == IF r1.neighborhood_set # {} /\ r2.neighborhood_set # {}
                 THEN RMul(<<3, 10>>, cosine_sim(Some(r1.neighborhood_set),
                                                 Some(r2.neighborhood_set)))
                 ELSE Bonus(same("city"), <<3, 10>>)
    IN  RAdd(Sum3(RMul(<<1, 4>>, Cl(r1.bed, r2.bed, <<1, 2>>)),
                  RMul(<<1, 4>>, Cl(r1.bath, r2.bath, <<1, 2>>)),
                  place),
             Sum3(Bonus(same("type_id"), <<1, 10>>),
                  RMul(<<1, 20>>, Cos(Attr(r1, "amenity_ids"), Attr(r2, "amenity_ids"))),
                  RMul(<<1, 20>>, Cos(Attr(r1, "amenity_names"), Attr(r2, "amenity_names")))))

\* both values present, non-zero and equal
Matching(a, b) == a # None /\ a = b /\ a[1] # 0

\* C3: after a complete run the store holds, for every compared pair, the
\* two directed edges with the pair's score exactly when the score is at or
\* above the threshold of the pass; the number of Is_Similar edges is twice
\* the number of such pairs and is the sum of the counts connect_nodes
\* reported.
C3_EdgesIffAtThreshold ==
    pc = "done" =>
        /\ \A k \in DOMAIN scored :
               LET e == scored[k]
               IN  (/\ HasEdge(NodeKey(e.p1), NodeKey(e.p2), e.result.score)
                    /\ HasEdge(NodeKey(e.p2), NodeKey(e.p1), e.result.score))
                   <=> AtThreshold(e)
        /\ BagCardinality(edges) = 2 * Cardinality({k \in DOMAIN scored : AtThreshold(scored[k])})
        /\ BagCardinality(edges) = reports[1].count + reports[2].count + reports[3].count

\* the part of C4 about the score alone: every sale-sale comparison that
\* returns, returns the weighted sum of section 4.3
C4_ScoreFormula ==
    \A k \in DOMAIN scored :
        (scored[k].pass = "zz" /\ scored[k].result.err = "") =>
            scored[k].result.score = SaleFormula(scored[k].p1, scored[k].p2, Closeness)

\* C4: every sale-sale comparison that returns, returns the weighted sum of
\* section 4.3; two sale records alike in price, stripped street, bed, bath
\* and size score 1, and once their CREATE query has succeeded the store
\* holds exactly 2 edges between them.
C4_SaleScoreAndEdges ==
    /\ C4_ScoreFormula
    /\ \A k \in DOMAIN scored :
           LET e == scored[k]
           IN  (/\ e.pass = "zz"
                /\ Matching(e.p1.price, e.p2.price)
                /\ e.p1.stripped_street = e.p2.stripped_street
                /\ Matching(e.p1.bed, e.p2.bed)
                /\ Matching(e.p1.bath, e.p2.bath)
                /\ Matching(e.p1.size, e.p2.size)) =>
                   /\ e.result = Returned(ROne)
                   /\ Written(e) =>
                          EdgeCount(NodeKey(e.p1), NodeKey(e.p2))
                          + EdgeCount(NodeKey(e.p2), NodeKey(e.p1)) = 2

\* matching bed and bath, disjoint one-element neighborhood sets
C5_Case(e) ==
    /\ e.pass = "aa"
    /\ e.result.err = ""
    /\ Matching(e.p1.bed, e.p2.bed)
    /\ Matching(e.p1.bath, e.p2.bath)
    /\ Cardinality(e.p1.neighborhood_set) = 1
    /\ Cardinality(e.p2.neighborhood_set) = 1
    /\ e.p1.neighborhood_set \cap e.p2.neighborhood_set = {}

NumericAttrs(p) == IF p = "zz" THEN {"price", "bed", "bath", "size"} ELSE {"bed", "bath"}

\* the weighted sum of a pass, every closeness term on an absent or zero
\* value left out and every other term at its own weight
PassFormula(e) ==
    IF e.pass = "zz" THEN SaleFormula(e.p1, e.p2, ClosenessNonZero)
    ELSE IF e.pass = "aa" THEN SixFormula(e.p1, e.p2, FALSE, ClosenessNonZero)
    ELSE ThirdsFormula(e.p1, e.p2, ClosenessNonZero)

\* absent price against 300000, same stripped street, beds further apart
\* than the 0.5 ratio, bath and size absent
C7_Case(e) ==
    /\ e.pass = "zz"
    /\ e.p1.price = None
    /\ e.p2.price = <<300000>>
    /\ e.p1.stripped_street = e.p2.stripped_street
    /\ e.p1.bed # None /\ e.p2.bed # None
    /\ e.p1.bed[1] > 0 /\ e.p2.bed[1] > 0
    /\ 4 * Abs(e.p1.bed[1] - e.p2.bed[1]) > e.p1.bed[1] + e.p2.bed[1]
    /\ e.p1.bath = None /\ e.p2.bath = None
    /\ e.p1.size = None /\ e.p2.size = None

\* C7: in each of the three scorers, a comparison of two records of which
\* one lacks a numeric attribute (price, bed, bath, size) returns the sum of
\* the remaining terms at their own weights, the closeness term of the
\* absent attribute adding 0; a sale record without price against one with
\* price 300000, same stripped street, beds further apart than the ratio,
\* bath and size absent, scores 1/5 and no CREATE query is sent for it.
C7_AbsentTermZero ==
    \A k \in DOMAIN scored :
        LET e == scored[k]
        IN  /\ (/\ e.result.err = ""
                /\ \E a \in NumericAttrs(e.pass) : e.p1[a] = None \/ e.p2[a] = None) =>
                   e.result.score = PassFormula(e)
            /\ C7_Case(e) =>
                   /\ e.result = Returned(<<1, 5>>)
                   /\ \A w \in DOMAIN writes :
                          ~(writes[w].p1 = e.p1 /\ writes[w].p2 = e.p2)

\* the sale pair of the scenario was compared and scored 1/5
C7_Witness ==
    \E k \in DOMAIN scored : C7_Case(scored[k]) /\ scored[k].result = Returned(<<1, 5>>)

\* C8: a rental-rental comparison of two records of which one or both lack
\* type_id or city returns the six-term sum in which the type and city
\* terms of an absent attribute add nothing.
C8_AbsentBinaryTermNothing ==
    \A k \in DOMAIN scored :
        LET e == scored[k]
        IN  (/\ e.pass = "aa"
             /\ e.result.err = ""
             /\ \E a \in {"type_id", "city"} : e.p1[a] = None \/ e.p2[a] = None) =>
                e.result.score = SixFormula(e.p1, e.p2, TRUE, ClosenessNonZero)

(***************************************************************************)
(* Properties of single calls and of the run's endings                     *)
(***************************************************************************)
\* the attributes of a record that a payload can leave absent
Optional(r) ==
    DOMAIN r \cap {"price", "size", "bed", "bath", "neighborhood", "city", "type_id",
                   "amenity_ids", "amenity_names"}

AnyAbsent(r) == \E a \in Optional(r) : r[a] = None

\* a numeric attribute present on both records with values that sum to 0
OppositeValues(r1, r2) ==
    \E a \in (DOMAIN r1 \cap DOMAIN r2) \cap {"price", "size", "bed", "bath"} :
        r1[a] # None /\ r2[a] # None /\ r1[a][1] + r2[a][1] = 0

CompareReturned == call # None /\ call.fn = "compare" /\ ret # <<>>

\* C11: compare() of two constructed records of which one or both lack
\* some of price, size, bed, bath, neighborhood, city, type_id, amenity ids
\* and amenity names returns a score, whatever the kind pairing; it does not
\* raise because of the absent attribute.
C11_AbsentNeverRaises ==
    (/\ CompareReturned
     /\ AnyAbsent(call.self) \/ AnyAbsent(call.other)
     /\ ~OppositeValues(call.self, call.other)) => ret[1].err = ""

\* C12: every score compare() returns, for every kind pairing and all
\* attribute values, negative ones included, is at least 0 and at most 1.
C12_ScoreInUnitInterval ==
    (CompareReturned /\ ret[1].err = "") =>
        RLe(RZero, ret[1].score) /\ RLe(ret[1].score, ROne)

\* C13: for x + y # 0 and r > 0, num_sim(x, y, r) returns a value in
\* [0, 1], which is 1 when x = y and is 0 exactly when
\* |x - y| / ((x + y) / 2) >= r.
C13_NumSimRange ==
    (/\ call # None
     /\ call.fn = "num_sim"
     /\ ret # <<>>
     /\ call.base_val + call.comp_val # 0) =>
        LET x == call.base_val
            y == call.comp_val
        IN  /\ ret[1].err = ""
            /\ RLe(RZero, ret[1].score) /\ RLe(ret[1].score, ROne)
            /\ x = y => ret[1].score = ROne
            /\ ret[1].score = RZero <=> RLe(call.ratio, Rat(2 * Abs(x - y), x + y))

\* C14: for two sale records and for two rental records, r1.compare(r2)
\* and r2.compare(r1) end alike, with the same score or the same exception;
\* and num_sim(x, y, r) = num_sim(y, x, r) wherever num_sim is defined.
C14_Symmetric ==
    /\ (/\ call # None
        /\ call.fn = "compare"
        /\ Len(ret) = 2
        /\ call.self.data_source = call.other.data_source) => ret[1] = ret[2]
    /\ (/\ call # None
        /\ call.fn = "num_sim"
        /\ ret # <<>>
        /\ ret[1].err = "") =>
           ret[1].score = num_sim(call.comp_val, call.base_val, call.ratio)

\* two different sale records compared both ways, with a score that is
\* neither 0 nor 1
C14_Witness ==
    /\ call # None
    /\ call.fn = "compare"
    /\ Len(ret) = 2
    /\ call.self.data_source = "zillow"
    /\ call.other.data_source = "zillow"
    /\ call.self.price # call.other.price
    /\ call.self.price # None /\ call.other.price # None
    /\ ret[2].err = ""
    /\ ret[2].score \notin {RZero, ROne}

\* C15: no record with an absent id is produced: the records of the run all
\* have an id, and so have the records of every pair scored or written.
C15_NoRecordWithoutId ==
    /\ \A k \in DOMAIN zillow_props : zillow_props[k].id # None
    /\ \A k \in DOMAIN airbnb_props : airbnb_props[k].id # None
    /\ \A k \in DOMAIN scored : scored[k].p1.id # None /\ scored[k].p2.id # None
    /\ \A k \in DOMAIN writes : writes[k].p1.id # None /\ writes[k].p2.id # None

\* a constructor call has returned or raised
ConstructorDone == call # None /\ call.fn \in {"ZPFG", "APFG"} /\ ret # <<>>

Coerced(info) == DOMAIN info \cap {"price", "size", "bed", "bath"}

\* the payload's id, street and neighborhood are well formed
SoundBesidesNumbers(info) ==
    /\ info.id # None /\ ~CoerceRaises(info.id)
    /\ "street" \in DOMAIN info => info.street # None
    /\ ~NeighborhoodRaises(info.neighborhood)

\* the payload's id, street and numbers are well formed
SoundBesidesNeighborhood(info) ==
    /\ info.id # None /\ ~CoerceRaises(info.id)
    /\ "street" \in DOMAIN info => info.street # None
    /\ \A a \in Coerced(info) : ~CoerceRaises(info[a])

\* C16: constructing a record from a payload in which price, size, bed or
\* bath fails its coercion succeeds and stores that attribute as absent; a
\* null value is stored as absent and a value of 0 as 0.
C16_CoercionFallback ==
    (ConstructorDone /\ SoundBesidesNumbers(call.info)) =>
        /\ ret[1].err = ""
        /\ \A a \in Coerced(call.info) :
               /\ CoerceRaises(call.info[a]) => ret[1].self[a] = None
               /\ call.info[a] = None => ret[1].self[a] = None
               /\ call.info[a] = <<0>> => ret[1].self[a] = <<0>>

\* the set of names section 4.1 of the specification asks for
ExpectedNeighborhoodSet(v) ==
    IF v = None THEN {}
    ELSE IF v[1] = "plain" THEN {v[2]}
    ELSE v[2]

\* C17: construction never raises on the neighborhood and neighborhood_set
\* is the set of the elements of a collection or of a serialized list, the
\* one-element set of a single plain string, and the empty set when the
\* neighborhood is absent.
C17_NeighborhoodSet ==
    (ConstructorDone /\ SoundBesidesNeighborhood(call.info)) =>
        /\ ret[1].err = ""
        /\ ret[1].self.neighborhood_set = ExpectedNeighborhoodSet(call.info.neighborhood)

\* C18: every run eventually ends; a run that completes has reported, for
\* each of the three passes in order, the count of edges created and the
\* number of pairs considered; a run that aborts does so with the error of
\* the store.
C18_RunEnds ==
    /\ <>(pc \in {"done", "aborted"})
    /\ [](pc = "done" =>
            /\ Len(reports) = 3
            /\ <<reports[1].pass, reports[2].pass, reports[3].pass>> = <<"zz", "aa", "za">>
            /\ \A k \in 1..3 :
                   /\ reports[k].total = Len(ComparedPairs(reports[k].pass))
                   /\ reports[k].count =
                          2 * Cardinality({w \in DOMAIN writes :
                                              writes[w].pass = reports[k].pass}))
    /\ [](pc = "aborted" => error = "StoreError")

\* C19: compare() never calls num_sim outside its precondition: whenever
\* the guard of a closeness term lets the call happen, both values are
\* present and their sum is not 0, so no comparison ends in the
\* ZeroDivisionError of num_sim.
C19_NumSimPrecondition ==
    CompareReturned =>
        /\ ret[1].err # "ZeroDivisionError"
        /\ \A a \in (DOMAIN call.self \cap DOMAIN call.other)
                      \cap {"price", "size", "bed", "bath"} :
               (Truthy(call.self[a]) /\ Truthy(call.other[a])) =>
                   ~num_sim_raises(call.self[a][1], call.other[a][1])

\* C20: a CREATE query that fails is sent once; the run then stands aborted
\* with the store's error, the failed pair being the last one scored and the
\* last one written, whatever passes and pairs remained; the failing step
\* leaves the edges written before it in the store, and nothing changes
\* after the abort.
C20_WriteFailureStops ==
    /\ [](\A k \in DOMAIN writes :
            ~writes[k].ok =>
                /\ k = Len(writes)
                /\ pc = "aborted"
                /\ error = "StoreError"
                /\ scored # <<>>
                /\ scored[Len(scored)].p1 = writes[k].p1
                /\ scored[Len(scored)].p2 = writes[k].p2
                /\ scored[Len(scored)].pass = writes[k].pass
                /\ reports = SelectSeq(reports, LAMBDA r : r.pass # writes[k].pass))
    /\ [][(Len(writes') > Len(writes) /\ ~writes'[Len(writes')].ok) =>
            /\ Len(writes') = Len(writes) + 1
            /\ edges' = edges]_vars
    /\ [][pc = "aborted" => UNCHANGED <<edges, scored, writes, pc, error, reports>>]_vars

\* a write failed in the first pass after an earlier write had put edges in
\* the store, pairs of that pass and two whole passes remaining
C20_Witness ==
    /\ pc = "aborted"
    /\ error = "StoreError"
    /\ Len(writes) >= 2
    /\ ~writes[Len(writes)].ok
    /\ pass = "zz"
    /\ idx < Len(pairs)
    /\ edges # EmptyBag

(***************************************************************************)
(* Properties of Airbnb.get_listings                                       *)
(***************************************************************************)
\* turn k of the loop got a page that reports no next page
NoNextPage(k) == results[k].kind = "page" /\ ~results[k].has_next_page

\* the k-th request has offset (k - 1) * limit, and there are at most
\* `pages` requests
OffsetsInOrder ==
    /\ Len(requests) = Len(results)
    /\ Len(requests) <= pages
    /\ \A k \in DOMAIN requests : requests[k] = (k - 1) * limit

\* a request that raises or returns no listings is the last one
StopsAtFailure ==
    \A k \in DOMAIN results :
        results[k].kind \in {"raises", "no_listings"} =>
            k = Len(results) /\ gl_pc \in {"break", "returned"}

\* C21: get_listings requests offsets 0, limit, 2*limit, ... in order, at
\* most `pages` of them; a request that raises or returns no listings is
\* the last; and after the first page that reports has_next_page false
\* there is one more request and no further one, whatever the extra page
\* reports (none when the `pages` requests are used up).
C21_RequestsAndStop ==
    /\ OffsetsInOrder
    /\ StopsAtFailure
    /\ \A k \in DOMAIN results :
           (NoNextPage(k) /\ \A j \in 1..(k - 1) : ~NoNextPage(j)) =>
               /\ Len(requests) <= k + 1
               /\ gl_pc = "returned" => Len(requests) = (IF k < pages THEN k + 1 ELSE pages)

====
